---- MODULE Spec2Model ----
(***************************************************************************)
(* Model of the technical-analysis and ranking engine                      *)
(*   src/analysis/technical_analysis.py                                    *)
(*   src/data/stock_fetcher.py  (calculate_post_earnings_movement)         *)
(*                                                                         *)
(* Floating-point numbers are modelled as exact rationals <<n, d>> in      *)
(* lowest terms with d > 0; NaN is <<0, 0>>; Python's None in a numeric    *)
(* field is << >>.  A timestamp is <<day, time of day>>, so that an         *)
(* intraday timestamp differs from the midnight of its day.                *)
(***************************************************************************)
EXTENDS Integers, Sequences, FiniteSets, TLC

VARIABLES
    historical_df,       \* the price DataFrame handed to the analysis functions
    earnings_df,         \* the earnings DataFrame handed to them (or None)
    now,                 \* the wall clock read by datetime.now()
    call,                \* the function last called, with its arguments
    result,              \* what that call returned
    locals,              \* local values of that call the result does not carry
    prev,                \* the result of the call before it
    announcement_dates,  \* calculate_post_earnings_movement: its argument
    hist_data,           \* ... the price history it fetched: date -> Close
    results,             \* ... what it returned
    pc,                  \* process_ticker_data: the statement it is at
    stock_id,            \* ... what save_stock_info returned (0 for None)
    trace,               \* ... the operations it has invoked in this run, in order
    returned,            \* ... its return value
    runs,                \* the runs of process_ticker_data started so far
    support_resistance_rows, \* the support_resistance table
    trend_score_rows,    \* the trend_scores table
    saved,               \* how many saves into each table returned True
    tickers,             \* fetch_batch_tickers: its argument
    futures,             \* ... the state of the future submitted for each position
    cursor,              \* ... the position its collecting loop waits at
    fetched              \* ... its results dictionary

collectorVars == <<pc, stock_id, trace, returned, runs,
                   support_resistance_rows, trend_score_rows, saved>>
batchVars == <<tickers, futures, cursor, fetched>>

vars == <<historical_df, earnings_df, now, call, result, locals, prev,
          announcement_dates, hist_data, results, collectorVars, batchVars>>

----------------------------------------------------------------------------
(* Bounds of the model *)

\* longest price series whose rows are enumerated value by value
MaxLen == 3
\* the clock is read at most this many ticks after the start
MaxClock == 1
\* longest earnings DataFrame whose rows are enumerated value by value
MaxEarnings == 2

\* announcement dates fall on days 0 .. MaxAnnDay
MaxAnnDay == 5
\* a fetched price history holds at most MaxTradingDays days of its range ...
MaxTradingDays == 2
\* ... or all days of its range but at most MaxClosedDays
MaxClosedDays == 1

\* price levels and volumes of the enumerated rows
Prices == {1, 2}
Volumes == {0, 1}
\* window and num_levels arguments tried on calculate_support_resistance
Windows == {1, 2, 3}
NumLevels == {1, 3}
\* lengths of the patterned long series: around every horizon of the trend score
LongLens == {5, 6, 20, 21, 30, 31, 60, 61}

----------------------------------------------------------------------------
(* Floating-point values as rationals *)

Abs(x) == IF x < 0 THEN -x ELSE x

RECURSIVE GCD(_, _)
GCD(a, b) == IF b = 0 THEN a ELSE GCD(b, a % b)

\* n/d in lowest terms, d # 0
Rat(n, d) ==
    LET g == GCD(Abs(n), Abs(d))
        s == IF d < 0 THEN -1 ELSE 1
    IN  <<(s * n) \div g, (s * d) \div g>>

NaN == <<0, 0>>
None == << >>
Flt(n) == <<n, 1>>
IsNaN(x) == x[2] = 0
IsNum(x) == Len(x) = 2 /\ x[2] > 0

FAdd(x, y) == IF IsNaN(x) \/ IsNaN(y) THEN NaN
              ELSE Rat(x[1] * y[2] + y[1] * x[2], x[2] * y[2])
FSub(x, y) == IF IsNaN(x) \/ IsNaN(y) THEN NaN
              ELSE Rat(x[1] * y[2] - y[1] * x[2], x[2] * y[2])
FMul(x, y) == IF IsNaN(x) \/ IsNaN(y) THEN NaN
              ELSE Rat(x[1] * y[1], x[2] * y[2])
\* x / y; a finite x # 0 over 0 (an infinity) is outside the model: prices are > 0
FDiv(x, y) == CASE IsNaN(x) \/ IsNaN(y) -> NaN
                [] y[1] # 0 -> Rat(x[1] * y[2], x[2] * y[1])
                [] y[1] = 0 /\ x[1] = 0 -> NaN
\* comparisons: every comparison with NaN is false
FLt(x, y) == ~IsNaN(x) /\ ~IsNaN(y) /\ x[1] * y[2] < y[1] * x[2]
FLe(x, y) == ~IsNaN(x) /\ ~IsNaN(y) /\ x[1] * y[2] <= y[1] * x[2]
FGt(x, y) == FLt(y, x)

RECURSIVE SumInt(_)
SumInt(s) == IF s = << >> THEN 0 ELSE Head(s) + SumInt(Tail(s))

\* Series.mean() of a column of integers: NaN for an empty column
MeanInt(s) == IF s = << >> THEN NaN ELSE Rat(SumInt(s), Len(s))

MaxOf(S) == CHOOSE m \in S : \A x \in S : x <= m
MinOf(S) == CHOOSE m \in S : \A x \in S : m <= x

----------------------------------------------------------------------------
(* DataFrames *)

NoneDF == [kind |-> "None"]
DataFrame(cols, rws) == [kind |-> "DataFrame", columns |-> cols, rows |-> rws, ma |-> << >>]

IsNone(df) == df.kind = "None"
\* DataFrame.empty: no rows
Empty(df) == Len(df.rows) = 0
HasCol(df, c) == c \in df.columns
\* df[c] as a sequence of integers
Col(df, c) == [i \in 1..Len(df.rows) |-> df.rows[i][c]]
\* s[-k:] : the last k entries (all of them when there are fewer)
LastK(s, k) == IF Len(s) <= k THEN s ELSE SubSeq(s, Len(s) - k + 1, Len(s))

----------------------------------------------------------------------------
(* Series.rolling(window).mean() / .max() / .min(): min_periods defaults to *)
(* the window, so an index with fewer than window points up to it is NaN    *)

\* mutant of rolling_mean: min_periods = 1, an average over the points there are
rolling_mean_partial(col, window) ==
    [i \in 1..Len(col) |->
        IF i < window THEN MeanInt(SubSeq(col, 1, i))
        ELSE MeanInt(SubSeq(col, i - window + 1, i))]

rolling_mean(col, window) ==
    [i \in 1..Len(col) |->
        IF i < window THEN NaN ELSE MeanInt(SubSeq(col, i - window + 1, i))]

rolling_max_last(col, window) ==
    IF Len(col) < window THEN NaN
    ELSE Flt(MaxOf({col[i] : i \in (Len(col) - window + 1)..Len(col)}))

rolling_min_last(col, window) ==
    IF Len(col) < window THEN NaN
    ELSE Flt(MinOf({col[i] : i \in (Len(col) - window + 1)..Len(col)}))

DefaultWindows == {20, 50, 200}

\* an exception raised inside a try block
Raised == [kind |-> "raise"]

\* mutant of except_return: the exception is not caught
except_return_reraise(outcome, fallback) == outcome

\* try: ... except Exception: log and return the fallback
except_return(outcome, fallback) == IF outcome = Raised THEN fallback ELSE outcome

\* the try block of calculate_moving_averages: df.copy() raises for None and
\* result_df['Close'] raises when the column is missing
moving_averages_try(df, windows) ==
    IF IsNone(df) THEN Raised
    ELSE IF windows # {} /\ ~HasCol(df, "Close") THEN Raised
    ELSE [df EXCEPT !.ma = [w \in windows |-> rolling_mean(Col(df, "Close"), w)]]

\* calculate_moving_averages(df, windows): the frame with a column ma_w per window;
\* any exception (df is None, no Close column) returns df itself
calculate_moving_averages(df, windows) == except_return(moving_averages_try(df, windows), df)

----------------------------------------------------------------------------
(* calculate_support_resistance *)

DefaultWindow == 252
DefaultNumLevels == 2

NoneResult == [kind |-> "None"]

\* mutants of resistance_level and support_level: the divisor is num_levels
resistance_level_over_n(current_price, high_52w, i, num_levels) ==
    FAdd(current_price,
         FMul(Rat(i + 1, num_levels), FSub(high_52w, current_price)))

support_level_over_n(current_price, low_52w, i, num_levels) ==
    FSub(current_price,
         FMul(Rat(i + 1, num_levels), FSub(current_price, low_52w)))

\* the i-th pass of the level loop, i = 0 .. num_levels - 1
resistance_level(current_price, high_52w, i, num_levels) ==
    FAdd(current_price,
         FMul(Rat(i + 1, num_levels + 1), FSub(high_52w, current_price)))

support_level(current_price, low_52w, i, num_levels) ==
    FSub(current_price,
         FMul(Rat(i + 1, num_levels + 1), FSub(current_price, low_52w)))

\* the 52-week high and low: rolling(window).max() / .min() at the last row
high_52w_of(df, window) == rolling_max_last(Col(df, "High"), window)
low_52w_of(df, window) == rolling_min_last(Col(df, "Low"), window)

\* the inputs on which the body raises (KeyError, IndexError, TypeError), which
\* the except clause turns into None
support_resistance_raises(df) ==
    \/ IsNone(df)
    \/ ~HasCol(df, "High")
    \/ ~HasCol(df, "Low")
    \/ Empty(df)
    \/ ~HasCol(df, "Close")

\* clock is the value datetime.now() returns during the call
\* mutant of support_resistance_failed: the record is built before the reads, and
\* a failing read leaves it partially filled
support_resistance_failed_partial(ticker, clock) ==
    [kind |-> "dict", ticker |-> ticker, date |-> clock]

\* a read of the try block fails before the result dictionary (line 80) exists
support_resistance_failed(ticker, clock) == Raised

support_resistance_try(df, ticker, window, num_levels, clock) ==
    IF support_resistance_raises(df) THEN support_resistance_failed(ticker, clock)
    ELSE
      LET n == Len(df.rows)
          high_52w == high_52w_of(df, window)
          low_52w == low_52w_of(df, window)
          ma_df == calculate_moving_averages(df, DefaultWindows)
          current_price == Flt(df.rows[n]["Close"])
          resistances ==
              SortSeq([k \in 1..num_levels |->
                         resistance_level(current_price, high_52w, k - 1, num_levels)],
                      FLt)
          supports ==
              SortSeq([k \in 1..num_levels |->
                         support_level(current_price, low_52w, k - 1, num_levels)],
                      FGt)
      IN  [kind |-> "dict",
           ticker |-> ticker,
           date |-> clock,
           fifty_two_week_high |-> high_52w,
           fifty_two_week_low |-> low_52w,
           ma_20 |-> ma_df.ma[20][n],
           ma_50 |-> ma_df.ma[50][n],
           ma_200 |-> ma_df.ma[200][n],
           resistance |-> resistances,
           support |-> supports]

calculate_support_resistance(df, ticker, window, num_levels, clock) ==
    except_return(support_resistance_try(df, ticker, window, num_levels, clock), NoneResult)

----------------------------------------------------------------------------
(* calculate_trend_score *)

Periods == <<"1d", "1w", "1m", "3m">>
PeriodDays == [p \in {"1d", "1w", "1m", "3m"} |->
                 CASE p = "1d" -> 1 [] p = "1w" -> 5 [] p = "1m" -> 20 [] p = "3m" -> 60]
\* mutant of weights: the weights given to the periods in reverse order
weights_reversed == [p \in {"1d", "1w", "1m", "3m"} |->
                       CASE p = "1d" -> Rat(2, 10) [] p = "1w" -> Rat(2, 10)
                         [] p = "1m" -> Rat(3, 10) [] p = "3m" -> Rat(3, 10)]

weights == [p \in {"1d", "1w", "1m", "3m"} |->
              CASE p = "1d" -> Rat(3, 10) [] p = "1w" -> Rat(3, 10)
                [] p = "1m" -> Rat(2, 10) [] p = "3m" -> Rat(2, 10)]

\* mutant of period_return: the past price is taken at iloc[-days]
period_return_off_by_one(df, days) ==
    LET n == Len(df.rows)
        latest_price == Flt(df.rows[n]["Close"])
    IN  IF n > days
        THEN LET past_price == Flt(df.rows[n - days + 1]["Close"])
             IN  FDiv(FSub(latest_price, past_price), past_price)
        ELSE Flt(0)

\* the return over `days` trading points, 0 when the series is too short
period_return(df, days) ==
    LET n == Len(df.rows)
        latest_price == Flt(df.rows[n]["Close"])
    IN  IF n > days
        THEN LET past_price == Flt(df.rows[n - days]["Close"])
             IN  FDiv(FSub(latest_price, past_price), past_price)
        ELSE Flt(0)

returns_of(df) == [p \in {"1d", "1w", "1m", "3m"} |-> period_return(df, PeriodDays[p])]

RECURSIVE weighted_sum(_, _, _)
weighted_sum(rets, wts, k) ==
    IF k = 0 THEN Flt(0)
    ELSE FAdd(weighted_sum(rets, wts, k - 1), FMul(rets[Periods[k]], wts[Periods[k]]))

price_trend_score_of(rets) == FMul(weighted_sum(rets, weights, Len(Periods)), Flt(100))

\* mutant of volume_trend_score_of: the 25-point baseline is used from 30 points on
volume_trend_score_of_from_30(df) ==
    LET vol == Col(df, "Volume")
        n == Len(vol)
        recent_volume == MeanInt(LastK(vol, 5))
        baseline_volume == IF n >= 30 THEN MeanInt(SubSeq(vol, n - 29, n - 5))
                           ELSE MeanInt(vol)
    IN  IF FGt(baseline_volume, Flt(0))
        THEN FMul(FSub(FDiv(recent_volume, baseline_volume), Flt(1)), Flt(100))
        ELSE Flt(0)

\* mutant of volume_trend_score_of: the division is not guarded, 0/0 and x/0 are not numbers
volume_trend_score_of_unguarded(df) ==
    LET vol == Col(df, "Volume")
        n == Len(vol)
        recent_volume == MeanInt(LastK(vol, 5))
        baseline_volume == IF n > 30 THEN MeanInt(SubSeq(vol, n - 29, n - 5))
                           ELSE MeanInt(vol)
    IN  IF FGt(baseline_volume, Flt(0))
        THEN FMul(FSub(FDiv(recent_volume, baseline_volume), Flt(1)), Flt(100))
        ELSE NaN

volume_trend_score_of(df) ==
    LET vol == Col(df, "Volume")
        n == Len(vol)
        recent_volume == MeanInt(LastK(vol, 5))
        baseline_volume == IF n > 30 THEN MeanInt(SubSeq(vol, n - 29, n - 5))
                           ELSE MeanInt(vol)
    IN  IF FGt(baseline_volume, Flt(0))
        THEN FMul(FSub(FDiv(recent_volume, baseline_volume), Flt(1)), Flt(100))
        ELSE Flt(0)

\* Series.mean() of a column of floats: NaN entries are skipped, NaN when none is left
RECURSIVE SumF(_)
SumF(s) == IF s = << >> THEN Flt(0) ELSE FAdd(Head(s), SumF(Tail(s)))
\* mutant of MeanF: a missing entry counts as 0 in place of being skipped
MeanF_zero_filled(s) ==
    LET kept == SelectSeq(s, LAMBDA x : ~IsNaN(x))
    IN  IF s = << >> THEN NaN ELSE FDiv(SumF(kept), Flt(Len(s)))

MeanF(s) ==
    LET kept == SelectSeq(s, LAMBDA x : ~IsNaN(x))
    IN  IF kept = << >> THEN NaN ELSE FDiv(SumF(kept), Flt(Len(kept)))

ECol(edf, c) == [i \in 1..Len(edf.rows) |-> edf.rows[i][c]]
\* df.head(k)
HeadK(s, k) == IF Len(s) <= k THEN s ELSE SubSeq(s, 1, k)

earnings_trend_score_of(edf) ==
    IF ~IsNone(edf) /\ ~Empty(edf) /\ HasCol(edf, "surprise_percent")
    THEN MeanF(HeadK(ECol(edf, "surprise_percent"), 3))
    ELSE Flt(0)

\* mutant of combined_score_of: the volume and earnings weights are exchanged
combined_score_of_swapped(p, v, e) ==
    FAdd(FAdd(FMul(Rat(5, 10), p), FMul(Rat(2, 10), v)), FMul(Rat(3, 10), e))

combined_score_of(p, v, e) ==
    FAdd(FAdd(FMul(Rat(5, 10), p), FMul(Rat(3, 10), v)), FMul(Rat(2, 10), e))

trend_score_raises(df) == ~HasCol(df, "Close") \/ ~HasCol(df, "Volume")

\* mutant of trend_score_record: the price score drifts with the time of the call
trend_score_record_clocked(ticker, clock, price, volume, earnings) ==
    [kind |-> "dict",
     ticker |-> ticker,
     date |-> clock,
     price_trend_score |-> FAdd(price, Flt(clock)),
     volume_trend_score |-> volume,
     earnings_trend_score |-> earnings,
     combined_score |->
         combined_score_of(FAdd(price, Flt(clock)), volume, earnings)]

\* the dictionary calculate_trend_score returns
trend_score_record(ticker, clock, price, volume, earnings) ==
    [kind |-> "dict",
     ticker |-> ticker,
     date |-> clock,
     price_trend_score |-> price,
     volume_trend_score |-> volume,
     earnings_trend_score |-> earnings,
     combined_score |->
         combined_score_of(price, volume, earnings)]

\* mutant of trend_score_try: without a price series the earnings score alone is returned
trend_score_try_earnings_only(df, edf, ticker, clock) ==
    IF IsNone(df) \/ Empty(df)
    THEN IF IsNone(edf) THEN NoneResult
         ELSE trend_score_record(ticker, clock, Flt(0), Flt(0), earnings_trend_score_of(edf))
    ELSE IF trend_score_raises(df) THEN Raised
    ELSE trend_score_record(ticker, clock,
                            price_trend_score_of(returns_of(df)),
                            volume_trend_score_of(df),
                            earnings_trend_score_of(edf))

trend_score_try(df, edf, ticker, clock) ==
    IF IsNone(df) THEN NoneResult
    ELSE IF Empty(df) THEN NoneResult
    ELSE IF trend_score_raises(df) THEN Raised
    ELSE trend_score_record(ticker, clock,
                            price_trend_score_of(returns_of(df)),
                            volume_trend_score_of(df),
                            earnings_trend_score_of(edf))

calculate_trend_score(df, edf, ticker, clock) ==
    except_return(trend_score_try(df, edf, ticker, clock), NoneResult)

\* the `returns` dictionary of the call, which the result does not carry
trend_score_locals(df) ==
    IF IsNone(df) THEN << >>
    ELSE IF Empty(df) \/ ~HasCol(df, "Close") THEN << >>
    ELSE [returns |-> returns_of(df)]

----------------------------------------------------------------------------
(* analyze_price_action_after_earnings *)

\* the rows of two columns at which both hold a value (pairwise deletion)
BothIdx(xs, ys) == {i \in 1..Len(xs) : ~IsNaN(xs[i]) /\ ~IsNaN(ys[i])}

RECURSIVE SumOver(_, _, _)
\* the sum of f[i] * g[i] over the indices in S
SumOver(f, g, S) ==
    IF S = {} THEN Flt(0)
    ELSE LET i == CHOOSE j \in S : TRUE
         IN  FAdd(FMul(f[i], g[i]), SumOver(f, g, S \ {i}))

Sign(x) == IF x[1] > 0 THEN 1 ELSE IF x[1] < 0 THEN -1 ELSE 0

\* DataFrame.corr() of two columns (Pearson, pairwise complete rows).  The
\* coefficient r is carried as <<sign of r, numerator of r^2, denominator of r^2>>;
\* NaN when fewer than two complete rows exist or a column is constant on them.
Corr(xs, ys) ==
    LET S == BothIdx(xs, ys)
        n == Flt(Cardinality(S))
        one == [i \in 1..Len(xs) |-> Flt(1)]
        sxy == FSub(FMul(n, SumOver(xs, ys, S)), FMul(SumOver(xs, one, S), SumOver(ys, one, S)))
        sxx == FSub(FMul(n, SumOver(xs, xs, S)), FMul(SumOver(xs, one, S), SumOver(xs, one, S)))
        syy == FSub(FMul(n, SumOver(ys, ys, S)), FMul(SumOver(ys, one, S), SumOver(ys, one, S)))
    IN  IF Cardinality(S) < 2 \/ sxx[1] = 0 \/ syy[1] = 0 THEN NaN
        ELSE LET r2 == FDiv(FMul(sxy, sxy), FMul(sxx, syy))
             IN  <<Sign(sxy), r2[1], r2[2]>>

\* the rows of the frame that satisfy Test
Where(edf, Test(_)) == [edf EXCEPT !.rows = SelectSeq(edf.rows, Test)]

\* mutant of positive_surprises: a surprise of exactly 0 counts as positive
positive_surprises_or_zero(edf) == Where(edf, LAMBDA r : FLe(Flt(0), r["surprise_percent"]))

positive_surprises(edf) == Where(edf, LAMBDA r : FGt(r["surprise_percent"], Flt(0)))
negative_surprises(edf) == Where(edf, LAMBDA r : FLt(r["surprise_percent"], Flt(0)))

\* mutant of surprise_correlation: None whenever fewer than two rows have both values
surprise_correlation_by_pairs(edf, c) ==
    IF Cardinality(BothIdx(ECol(edf, "surprise_percent"), ECol(edf, c))) > 1
    THEN Corr(ECol(edf, "surprise_percent"), ECol(edf, c))
    ELSE None

surprise_correlation(edf, c) ==
    IF Len(edf.rows) > 1
    THEN Corr(ECol(edf, "surprise_percent"), ECol(edf, c))
    ELSE None

\* mutant of price_action_unavailable: a reduced record in place of None
price_action_unavailable_degraded(edf, ticker) ==
    [kind |-> "dict", ticker |-> ticker, earnings_count |-> Len(edf.rows)]

\* the branch taken when a forward-return column is missing
price_action_unavailable(edf, ticker) == NoneResult

analyze_price_action_after_earnings(df, edf, ticker) ==
    IF IsNone(edf) THEN NoneResult
    ELSE IF Empty(edf) THEN NoneResult
    ELSE IF HasCol(edf, "price_1d_change") /\ HasCol(edf, "price_5d_change")
    THEN
      LET avg_1d_change == MeanF(ECol(edf, "price_1d_change"))
          avg_5d_change == MeanF(ECol(edf, "price_5d_change"))
      IN  IF HasCol(edf, "surprise_percent")
          THEN
            LET MeanOrNone(part, c) ==
                    IF ~Empty(part) THEN MeanF(ECol(part, c)) ELSE None
            IN  [kind |-> "dict",
                 ticker |-> ticker,
                 avg_1d_change |-> avg_1d_change,
                 avg_5d_change |-> avg_5d_change,
                 avg_1d_after_positive_surprise |->
                     MeanOrNone(positive_surprises(edf), "price_1d_change"),
                 avg_5d_after_positive_surprise |->
                     MeanOrNone(positive_surprises(edf), "price_5d_change"),
                 avg_1d_after_negative_surprise |->
                     MeanOrNone(negative_surprises(edf), "price_1d_change"),
                 avg_5d_after_negative_surprise |->
                     MeanOrNone(negative_surprises(edf), "price_5d_change"),
                 surprise_1d_correlation |-> surprise_correlation(edf, "price_1d_change"),
                 surprise_5d_correlation |-> surprise_correlation(edf, "price_5d_change"),
                 earnings_count |-> Len(edf.rows)]
          ELSE [kind |-> "dict",
                ticker |-> ticker,
                avg_1d_change |-> avg_1d_change,
                avg_5d_change |-> avg_5d_change,
                earnings_count |-> Len(edf.rows)]
    ELSE price_action_unavailable(edf, ticker)

----------------------------------------------------------------------------
(* analyze_stock *)

\* mutant of analyze_stock: a sub-analysis that returned None aborts the bundle
analyze_stock_aborting(ticker, df, edf, clock_sr, clock_ts) ==
    IF IsNone(df) THEN NoneResult
    ELSE IF Empty(df) THEN NoneResult
    ELSE IF calculate_support_resistance(df, ticker, DefaultWindow,
                                         DefaultNumLevels, clock_sr) = NoneResult
    THEN NoneResult
    ELSE IF calculate_trend_score(df, edf, ticker, clock_ts) = NoneResult
    THEN NoneResult
    ELSE [kind |-> "dict",
          ticker |-> ticker,
          support_resistance |->
              calculate_support_resistance(df, ticker, DefaultWindow,
                                           DefaultNumLevels, clock_sr),
          trend_scores |-> calculate_trend_score(df, edf, ticker, clock_ts),
          earnings_analysis |->
              IF ~IsNone(edf) /\ ~Empty(edf)
              THEN analyze_price_action_after_earnings(df, edf, ticker)
              ELSE NoneResult]

\* mutant of analyze_stock: the check for a missing or empty series is left out
analyze_stock_unguarded(ticker, df, edf, clock_sr, clock_ts) ==
    [kind |-> "dict",
     ticker |-> ticker,
     support_resistance |->
         calculate_support_resistance(df, ticker, DefaultWindow,
                                      DefaultNumLevels, clock_sr),
     trend_scores |-> calculate_trend_score(df, edf, ticker, clock_ts),
     earnings_analysis |->
         IF ~IsNone(edf) /\ ~Empty(edf)
         THEN analyze_price_action_after_earnings(df, edf, ticker)
         ELSE NoneResult]

\* clock_sr and clock_ts are what datetime.now() returns inside
\* calculate_support_resistance and, after it, inside calculate_trend_score
analyze_stock(ticker, df, edf, clock_sr, clock_ts) ==
    IF IsNone(df) THEN NoneResult
    ELSE IF Empty(df) THEN NoneResult
    ELSE [kind |-> "dict",
          ticker |-> ticker,
          support_resistance |->
              calculate_support_resistance(df, ticker, DefaultWindow,
                                           DefaultNumLevels, clock_sr),
          trend_scores |-> calculate_trend_score(df, edf, ticker, clock_ts),
          earnings_analysis |->
              IF ~IsNone(edf) /\ ~Empty(edf)
              THEN analyze_price_action_after_earnings(df, edf, ticker)
              ELSE NoneResult]

----------------------------------------------------------------------------
(* Inputs of the analysis functions *)

Ticker == "TCKR"

PriceCols == {"High", "Low", "Close", "Volume"}

SeqsUpTo(S, n) == UNION {[1..k -> S] : k \in 0..n}

\* rows over the columns cols: prices are positive, Low <= Close <= High
RowsOver(cols) ==
    {r \in [cols -> Prices \cup Volumes] :
        /\ \A c \in cols \ {"Volume"} : r[c] \in Prices
        /\ "Volume" \in cols => r["Volume"] \in Volumes
        /\ {"Low", "Close"} \subseteq cols => r["Low"] <= r["Close"]
        /\ {"Close", "High"} \subseteq cols => r["Close"] <= r["High"]
        /\ {"Low", "High"} \subseteq cols => r["Low"] <= r["High"]}

\* every series of at most MaxLen rows with all four columns
ShortFrames == {DataFrame(PriceCols, rws) : rws \in SeqsUpTo(RowsOver(PriceCols), MaxLen)}

\* frames that lack one column, of at most one row
DeficientFrames ==
    UNION {{DataFrame(PriceCols \ {c}, rws) : rws \in SeqsUpTo(RowsOver(PriceCols \ {c}), 1)}
           : c \in PriceCols}

ClosePatterns == {"up", "down", "wave"}
VolumePatterns == {"flat", "zero", "surge", "fade", "wake"}

\* row i of the patterned series of n rows
LongRow(n, cp, vp, i) ==
    LET close == CASE cp = "up" -> 10 + i
                   [] cp = "down" -> 100 - i
                   [] cp = "wave" -> 10 + ((i * i) % 7)
        volume == CASE vp = "flat" -> 2
                    [] vp = "zero" -> 0
                    [] vp = "surge" -> IF i > n - 5 THEN 6 ELSE 2
                    [] vp = "fade" -> IF i > n - 30 THEN 0 ELSE 3
                    [] vp = "wake" -> IF i > n - 5 THEN 4 ELSE 0
    IN  [c \in PriceCols |->
            CASE c = "High" -> close + (i % 2)
              [] c = "Low" -> close - ((i + 1) % 2)
              [] c = "Close" -> close
              [] c = "Volume" -> volume]

LongFrames ==
    {DataFrame(PriceCols, [i \in 1..n |-> LongRow(n, cp, vp, i)]) :
        n \in LongLens, cp \in ClosePatterns, vp \in VolumePatterns}

EarningsCols == {"announcement_date", "surprise_percent", "price_1d_change", "price_5d_change"}
EarningsColumnSets ==
    {EarningsCols, EarningsCols \ {"surprise_percent"}, EarningsCols \ {"price_5d_change"},
     {"announcement_date", "surprise_percent"}}

EarningsValues(c) ==
    CASE c = "announcement_date" -> {Flt(0)}
      [] c = "surprise_percent" -> {Flt(-1), Flt(0), Flt(2), NaN}
      [] c = "price_1d_change" -> {Flt(-1), Flt(3)}
      [] c = "price_5d_change" -> {Flt(1), NaN}

EarningsRows(cols) ==
    {r \in [cols -> UNION {EarningsValues(c) : c \in cols}] :
        \A c \in cols : r[c] \in EarningsValues(c)}

\* four events on the days 1..4, listed in the order given: latest first (the
\* provider's order), oldest first, and two shuffles
DateOrders == {<<4, 3, 2, 1>>, <<1, 2, 3, 4>>, <<2, 4, 1, 3>>, <<3, 1, 4, 2>>}
DatedRow(d) ==
    [c \in EarningsCols |->
        CASE c = "announcement_date" -> Flt(d)
          [] c = "surprise_percent" -> Flt(d * d - 5)
          [] c = "price_1d_change" -> Flt((3 * d) % 5)
          [] c = "price_5d_change" -> IF d = 2 THEN NaN ELSE Flt(d)]
DatedFrames ==
    {DataFrame(EarningsCols, [k \in 1..Len(o) |-> DatedRow(o[k])]) : o \in DateOrders}

EarningsFrames ==
    DatedFrames \cup
    UNION {{DataFrame(cols, rws) : rws \in SeqsUpTo(EarningsRows(cols), MaxEarnings)}
           : cols \in EarningsColumnSets}

\* the price series the earnings frames are paired with
PairedFrames ==
    {DataFrame(PriceCols, << >>),
     DataFrame(PriceCols, [i \in 1..6 |-> LongRow(6, "up", "surge", i)])}

NoCall == [fn |-> "none"]
NoPrev == [kind |-> "none"]

\* the state before any call of calculate_post_earnings_movement
NoFetch == << >>

InitAnalysis ==
    /\ announcement_dates = << >>
    /\ hist_data = NoFetch
    /\ results = NoPrev
    /\ \/ /\ historical_df \in ShortFrames \cup DeficientFrames \cup LongFrames \cup {NoneDF}
          /\ earnings_df = NoneDF
       \/ /\ historical_df \in PairedFrames
          /\ earnings_df \in EarningsFrames
       \/ /\ historical_df = NoneDF
          /\ earnings_df \in DatedFrames
    /\ now = 0
    /\ call = NoCall
    /\ result = NoPrev
    /\ locals = << >>
    /\ prev = NoPrev
    /\ pc = "idle"
    /\ stock_id = 0
    /\ trace = << >>
    /\ returned = "none"
    /\ runs = 0
    /\ support_resistance_rows = << >>
    /\ trend_score_rows = << >>
    /\ saved = [support_resistance |-> 0, trend_score |-> 0]
    /\ tickers = << >>
    /\ futures = << >>
    /\ cursor = 0
    /\ fetched = << >>

----------------------------------------------------------------------------
(* Calls of the analysis functions.  A call reads the clock as often as the *)
(* function calls datetime.now(); the clock never runs backwards.           *)

\* the value of call c when its clock reads return t1 and then t2
Apply(c, t1, t2) ==
    CASE c.fn = "calculate_moving_averages" ->
             calculate_moving_averages(historical_df, c.windows)
      [] c.fn = "calculate_support_resistance" ->
             calculate_support_resistance(historical_df, Ticker, c.window, c.num_levels, t1)
      [] c.fn = "calculate_trend_score" ->
             calculate_trend_score(historical_df, earnings_df, Ticker, t1)
      [] c.fn = "analyze_price_action_after_earnings" ->
             analyze_price_action_after_earnings(historical_df, earnings_df, Ticker)
      [] c.fn = "analyze_stock" ->
             analyze_stock(Ticker, historical_df, earnings_df, t1, t2)

LocalsOf(c) ==
    IF c.fn = "calculate_trend_score" THEN trend_score_locals(historical_df) ELSE << >>

\* the clock reads a call can see
ClockReads(c) ==
    CASE c.fn \in {"calculate_moving_averages", "analyze_price_action_after_earnings"} ->
             {<<now, now>>}
      [] c.fn \in {"calculate_support_resistance", "calculate_trend_score"} ->
             {<<t, t>> : t \in now..MaxClock}
      [] c.fn = "analyze_stock" ->
             {<<t1, t2>> \in (now..MaxClock) \X (now..MaxClock) : t1 <= t2}

Invoke(c) ==
    \E t \in ClockReads(c) :
        /\ call' = c
        /\ result' = Apply(c, t[1], t[2])
        /\ locals' = LocalsOf(c)
        /\ now' = t[2]
        /\ prev' = result
        /\ UNCHANGED <<historical_df, earnings_df, announcement_dates, hist_data, results>>
        /\ UNCHANGED <<collectorVars, batchVars>>

WindowSets == {{w} : w \in Windows} \cup {Windows, DefaultWindows}

CallMovingAverages ==
    /\ call = NoCall
    /\ \E ws \in WindowSets : Invoke([fn |-> "calculate_moving_averages", windows |-> ws])

\* the <<window, num_levels>> arguments of the calls; the last pair is the defaults
SupportResistanceArgs ==
    ((Windows \cup {DefaultWindow}) \X NumLevels) \cup {<<DefaultWindow, DefaultNumLevels>>}

CallSupportResistance ==
    /\ call = NoCall
    /\ \E a \in SupportResistanceArgs :
          Invoke([fn |-> "calculate_support_resistance", window |-> a[1], num_levels |-> a[2]])

CallTrendScore ==
    /\ call = NoCall
    /\ Invoke([fn |-> "calculate_trend_score"])

CallPriceAction ==
    /\ call = NoCall
    /\ Invoke([fn |-> "analyze_price_action_after_earnings"])

CallAnalyzeStock ==
    /\ call = NoCall
    /\ Invoke([fn |-> "analyze_stock"])

\* the same call again, on the same inputs
Repeat ==
    /\ call # NoCall
    /\ call.fn # "calculate_post_earnings_movement"
    /\ prev = NoPrev
    /\ Invoke(call)

NextAnalysis ==
    \/ CallMovingAverages
    \/ CallSupportResistance
    \/ CallTrendScore
    \/ CallPriceAction
    \/ CallAnalyzeStock
    \/ Repeat

SpecAnalysis == InitAnalysis /\ [][NextAnalysis]_vars

----------------------------------------------------------------------------
(* calculate_post_earnings_movement *)

\* a timestamp is <<day, time of day>>; the rows of a daily price history sit at
\* time of day 0 (midnight), an announcement may carry a later time of day
TimesOfDay == {0, 1}
Midnight(d) == <<d, 0>>
AddDays(t, k) == <<t[1] + k, t[2]>>
TsLt(s, t) == s[1] < t[1] \/ (s[1] = t[1] /\ s[2] < t[2])
TsLe(s, t) == s = t \/ TsLt(s, t)

Days == <<1, 5>>
AnchorBoundDays == 3
ForwardSlackDays == 5

\* hist_data.index of a history hist : day -> Close
IndexOf(hist) == {Midnight(d) : d \in DOMAIN hist}
CloseAt(hist, t) == Flt(hist[t[1]])

RECURSIVE anchor_scan(_, _, _)
\* the while loop that looks for the announcement date or the next trading day
anchor_scan(closest_date, announcement_date, index) ==
    IF closest_date \notin index
       /\ TsLe(closest_date, AddDays(announcement_date, AnchorBoundDays))
    THEN anchor_scan(AddDays(closest_date, 1), announcement_date, index)
    ELSE closest_date

RECURSIVE forward_scan_inclusive(_, _, _, _, _)
\* mutant of forward_scan: the loop still steps when future_date is on the bound
forward_scan_inclusive(future_date, days_added, day, announcement_date, index) ==
    IF days_added < day
       /\ TsLe(future_date, AddDays(announcement_date, day + ForwardSlackDays))
    THEN LET next_date == AddDays(future_date, 1)
         IN  forward_scan_inclusive(next_date,
                          IF next_date \in index THEN days_added + 1 ELSE days_added,
                          day, announcement_date, index)
    ELSE <<future_date, days_added>>

RECURSIVE forward_scan(_, _, _, _, _)
\* the while loop that looks for the date `day` trading days ahead;
\* yields <<future_date, days_added>> as the loop leaves them
forward_scan(future_date, days_added, day, announcement_date, index) ==
    IF days_added < day
       /\ TsLt(future_date, AddDays(announcement_date, day + ForwardSlackDays))
    THEN LET next_date == AddDays(future_date, 1)
         IN  forward_scan(next_date,
                          IF next_date \in index THEN days_added + 1 ELSE days_added,
                          day, announcement_date, index)
    ELSE <<future_date, days_added>>

\* whether the loop body reports a price change for the horizon after the scan
reports_change(scan, index) == scan[1] \in index

price_change_of(hist, future_date, closest_date) ==
    FMul(FDiv(FSub(CloseAt(hist, future_date), CloseAt(hist, closest_date)),
              CloseAt(hist, closest_date)),
         Flt(100))

DaySet == {Days[k] : k \in 1..Len(Days)}

\* mutant of event_pass: an event whose anchor search failed is kept, its changes
\* measured from the earliest close of the series
event_pass_unchecked(hist, announcement_date) ==
    LET index == IndexOf(hist)
        closest_date == anchor_scan(announcement_date, announcement_date, index)
        scans == [day \in DaySet |->
                    forward_scan(closest_date, 0, day, announcement_date, index)]
        base == IF closest_date \in index THEN CloseAt(hist, closest_date)
                ELSE Flt(hist[MinOf(DOMAIN hist)])
    IN  [announcement_date |-> announcement_date, anchored |-> TRUE,
         closest_date |-> closest_date,
         scans |-> scans,
         price_changes |->
             [day \in {d \in DaySet : reports_change(scans[d], index)} |->
                 FMul(FDiv(FSub(CloseAt(hist, scans[day][1]), base), base), Flt(100))]]

\* what one pass of the loop over announcement_dates does for one date:
\* anchored is FALSE when the pass ends at `continue`
event_pass(hist, announcement_date) ==
    LET index == IndexOf(hist)
        closest_date == anchor_scan(announcement_date, announcement_date, index)
        scans == [day \in DaySet |->
                    forward_scan(closest_date, 0, day, announcement_date, index)]
    IN  IF closest_date \notin index
        THEN [announcement_date |-> announcement_date, anchored |-> FALSE,
              closest_date |-> closest_date]
        ELSE [announcement_date |-> announcement_date, anchored |-> TRUE,
              closest_date |-> closest_date,
              scans |-> scans,
              price_changes |->
                  [day \in {d \in DaySet : reports_change(scans[d], index)} |->
                      price_change_of(hist, scans[day][1], closest_date)]]

\* mutant of event_passes: the loop ends at the first date whose anchor is not found
event_passes_until_failure(hist, dates) ==
    LET failed == {k \in 1..Len(dates) : ~event_pass(hist, dates[k]).anchored}
        last == IF failed = {} THEN Len(dates) ELSE MinOf(failed)
    IN  [k \in 1..last |-> event_pass(hist, dates[k])]

\* the passes over all announcement dates, in order
event_passes(hist, dates) == [k \in 1..Len(dates) |-> event_pass(hist, dates[k])]

\* a row of the returned DataFrame: the announcement date and the price_<d>d_change
\* entries that were set
RowOf(pass) == [announcement_date |-> pass.announcement_date,
                price_change |-> pass.price_changes]

\* the key f'price_{day}d_change' of a per-event record
change_column(day) == IF day = 1 THEN "price_1d_change" ELSE "price_5d_change"

\* pd.DataFrame(results) as a frame: a column for every key some record has, NaN
\* where a record lacks the key
table_frame(table) ==
    LET days == UNION {DOMAIN table.rows[k].price_change : k \in 1..Len(table.rows)}
        cols == {"announcement_date"} \cup {change_column(day) : day \in days}
    IN  DataFrame(cols,
            [k \in 1..Len(table.rows) |->
                [c \in cols |->
                    IF c = "announcement_date" THEN table.rows[k].announcement_date
                    ELSE LET day == CHOOSE d \in days : change_column(d) = c
                         IN  IF day \in DOMAIN table.rows[k].price_change
                             THEN table.rows[k].price_change[day]
                             ELSE NaN]])

post_earnings_movement_try(hist, dates) ==
    IF dates = << >> THEN Raised                     \* min() of an empty list raises
    ELSE IF DOMAIN hist = {} THEN NoneResult         \* hist_data.empty
    ELSE LET kept == SelectSeq(event_passes(hist, dates), LAMBDA e : e.anchored)
         IN  IF kept # << >>
             THEN [kind |-> "DataFrame", rows |-> [k \in 1..Len(kept) |-> RowOf(kept[k])]]
             ELSE NoneResult

calculate_post_earnings_movement(hist, dates) ==
    except_return(post_earnings_movement_try(hist, dates), NoneResult)

\* the days stock.history(start, end) can return rows for: start is a day before
\* the earliest announcement, end (exclusive) max(days) + 1 days after the latest;
\* days before day 0 are never looked at and are left out
MinTs(dates) == CHOOSE t \in {dates[k] : k \in 1..Len(dates)} :
                    \A k \in 1..Len(dates) : TsLe(t, dates[k])
MaxTs(dates) == CHOOSE t \in {dates[k] : k \in 1..Len(dates)} :
                    \A k \in 1..Len(dates) : TsLe(dates[k], t)
FetchRange(dates) ==
    LET start_date == AddDays(MinTs(dates), -1)
        end_date == AddDays(MaxTs(dates), Days[Len(Days)] + 1)
    IN  {d \in 0..(end_date[1]) :
            TsLe(start_date, Midnight(d)) /\ TsLt(Midnight(d), end_date)}

MovementPatterns == {"up", "down"}
MovementClose(pattern, d) == IF pattern = "up" THEN 10 + d ELSE 40 - d

\* the histories the provider may answer with
Histories(dates) ==
    LET range == FetchRange(dates)
    IN  {[d \in held |-> MovementClose(pattern, d)] :
            held \in {S \in SUBSET range :
                        \/ Cardinality(S) <= MaxTradingDays
                        \/ Cardinality(range \ S) <= MaxClosedDays},
            pattern \in MovementPatterns}

EventCounts == 0..2
AnnouncementLists ==
    UNION {[1..k -> (0..MaxAnnDay) \X TimesOfDay] : k \in EventCounts}

InitMovement ==
    /\ announcement_dates \in AnnouncementLists
    /\ hist_data = NoFetch
    /\ results = NoPrev
    /\ historical_df = NoneDF
    /\ earnings_df = NoneDF
    /\ now = 0
    /\ call = NoCall
    /\ result = NoPrev
    /\ locals = << >>
    /\ prev = NoPrev
    /\ pc = "idle"
    /\ stock_id = 0
    /\ trace = << >>
    /\ returned = "none"
    /\ runs = 0
    /\ support_resistance_rows = << >>
    /\ trend_score_rows = << >>
    /\ saved = [support_resistance |-> 0, trend_score |-> 0]
    /\ tickers = << >>
    /\ futures = << >>
    /\ cursor = 0
    /\ fetched = << >>

\* one call of calculate_post_earnings_movement(ticker, announcement_dates)
CallMovement ==
    /\ call = NoCall
    /\ \E hist \in (IF announcement_dates = << >> THEN {NoFetch}
                    ELSE Histories(announcement_dates)) :
          /\ hist_data' = hist
          /\ results' = calculate_post_earnings_movement(hist, announcement_dates)
          /\ locals' = IF announcement_dates = << >> \/ DOMAIN hist = {} THEN << >>
                       ELSE event_passes(hist, announcement_dates)
    /\ call' = [fn |-> "calculate_post_earnings_movement"]
    /\ UNCHANGED <<historical_df, earnings_df, now, result, prev, announcement_dates>>
    /\ UNCHANGED <<collectorVars, batchVars>>

NextMovement == CallMovement

SpecMovement == InitMovement /\ [][NextMovement]_vars

\* the specification of the whole development: either family of calls
Init == InitAnalysis \/ InitMovement
Next == NextAnalysis \/ NextMovement
Spec == Init /\ [][Next]_vars

----------------------------------------------------------------------------
(* process_ticker_data and the saves of analysis results *)

\* runs of process_ticker_data that are followed
MaxRuns == 2

\* the id the stocks table holds for the ticker
StockId == 1

\* save_stock_info: the stock's id, or None (0) when the database fails
save_stock_info(db_ok) == IF db_ok THEN StockId ELSE 0

\* dict.get of a level key: None when the analysis made fewer levels
LevelOrNone(levels, k) == IF k <= Len(levels) THEN levels[k] ELSE None

\* the SupportResistance(...) record built from the analysis dictionary
support_resistance_record(sid, data) ==
    [stock_id |-> sid,
     date |-> data.date,
     resistance_1 |-> LevelOrNone(data.resistance, 1),
     resistance_2 |-> LevelOrNone(data.resistance, 2),
     support_1 |-> LevelOrNone(data.support, 1),
     support_2 |-> LevelOrNone(data.support, 2),
     fifty_two_week_high |-> data.fifty_two_week_high,
     fifty_two_week_low |-> data.fifty_two_week_low,
     ma_20 |-> data.ma_20,
     ma_50 |-> data.ma_50,
     ma_200 |-> data.ma_200]

\* the TrendScore(...) record built from the analysis dictionary
trend_score_db_record(sid, data) ==
    [stock_id |-> sid,
     date |-> data.date,
     price_trend_score |-> data.price_trend_score,
     volume_trend_score |-> data.volume_trend_score,
     earnings_trend_score |-> data.earnings_trend_score,
     combined_score |-> data.combined_score]

\* mutant of insert_row: the stock's latest row is updated in place
insert_row_or_update(rows, record) ==
    IF rows = << >> THEN <<record>> ELSE [rows EXCEPT ![Len(rows)] = record]

\* session.add(record); session.commit()
insert_row(rows, record) == Append(rows, record)

\* save_support_resistance: the table afterwards and the value returned; db_ok is
\* whether the commit goes through
save_support_resistance(rows, sid, data, db_ok) ==
    IF data = NoneResult THEN [rows |-> rows, ok |-> FALSE]
    ELSE IF db_ok
    THEN [rows |-> insert_row(rows, support_resistance_record(sid, data)), ok |-> TRUE]
    ELSE [rows |-> rows, ok |-> FALSE]

\* save_trend_score, likewise
save_trend_score(rows, sid, data, db_ok) ==
    IF data = NoneResult THEN [rows |-> rows, ok |-> FALSE]
    ELSE IF db_ok
    THEN [rows |-> insert_row(rows, trend_score_db_record(sid, data)), ok |-> TRUE]
    ELSE [rows |-> rows, ok |-> FALSE]

\* the truth value of a returned dictionary or None
Truthy(r) == r.kind = "dict"

\* mutant of has_sub_result: the sub-result is saved without looking at it
has_sub_result_unchecked(analysis, key) == TRUE

\* if analysis_results[key]:
has_sub_result(analysis, key) == Truthy(analysis[key])

\* if analysis_results: if analysis_results[key]:
wants_save(analysis, key) == Truthy(analysis) /\ has_sub_result(analysis, key)

\* the ticker_data of a run: historical_data and earnings_data
CollectorFrames ==
    {NoneDF,
     DataFrame(PriceCols, << >>),
     DataFrame(PriceCols \ {"Volume"}, <<[High |-> 2, Low |-> 1, Close |-> 1]>>),
     DataFrame(PriceCols, [i \in 1..2 |-> LongRow(2, "up", "flat", i)])}
CollectorEarnings == {NoneDF, DataFrame(EarningsCols, <<DatedRow(1)>>)}

InitCollector ==
    /\ historical_df \in CollectorFrames
    /\ earnings_df \in CollectorEarnings
    /\ announcement_dates = << >>
    /\ hist_data = NoFetch
    /\ results = NoPrev
    /\ now = 0
    /\ call = NoCall
    /\ result = NoPrev
    /\ locals = << >>
    /\ prev = NoPrev
    /\ pc = "idle"
    /\ stock_id = 0
    /\ trace = << >>
    /\ returned = "none"
    /\ runs = 0
    /\ support_resistance_rows = << >>
    /\ trend_score_rows = << >>
    /\ saved = [support_resistance |-> 0, trend_score |-> 0]
    /\ tickers = << >>
    /\ futures = << >>
    /\ cursor = 0
    /\ fetched = << >>

analysisVars == <<call, locals, prev, announcement_dates, hist_data, results>>
tableVars == <<support_resistance_rows, trend_score_rows, saved>>

\* process_ticker_data is called for the ticker's data
StartRun ==
    /\ pc \in {"idle", "done"}
    /\ runs < MaxRuns
    /\ runs' = runs + 1
    /\ pc' = "save_stock_info"
    /\ trace' = << >>
    /\ returned' = "none"
    /\ stock_id' = 0
    /\ result' = NoPrev
    /\ UNCHANGED <<historical_df, earnings_df, now, analysisVars, tableVars, batchVars>>

\* stock_id = save_stock_info(...); if not stock_id: return False
SaveStockInfo ==
    /\ pc = "save_stock_info"
    /\ \E db_ok \in BOOLEAN :
          /\ stock_id' = save_stock_info(db_ok)
          /\ pc' = IF stock_id' = 0 THEN "done" ELSE "save_historical_prices"
          /\ returned' = IF stock_id' = 0 THEN "False" ELSE returned
    /\ trace' = Append(trace, "save_stock_info")
    /\ UNCHANGED <<historical_df, earnings_df, now, result, runs>>
    /\ UNCHANGED <<analysisVars, tableVars, batchVars>>

\* if ticker_data['historical_data'] is not None: save_historical_prices(...)
SaveHistoricalPrices ==
    /\ pc = "save_historical_prices"
    /\ trace' = IF ~IsNone(historical_df) THEN Append(trace, "save_historical_prices")
                ELSE trace
    /\ pc' = "save_earnings_data"
    /\ UNCHANGED <<historical_df, earnings_df, now, result, runs, stock_id, returned>>
    /\ UNCHANGED <<analysisVars, tableVars, batchVars>>

\* if ticker_data['earnings_data'] is not None: save_earnings_data(...)
SaveEarningsData ==
    /\ pc = "save_earnings_data"
    /\ trace' = IF ~IsNone(earnings_df) THEN Append(trace, "save_earnings_data") ELSE trace
    /\ pc' = "analyze_stock"
    /\ UNCHANGED <<historical_df, earnings_df, now, result, runs, stock_id, returned>>
    /\ UNCHANGED <<analysisVars, tableVars, batchVars>>

\* analysis_results = analyze_stock(ticker, historical_data, earnings_data)
AnalyzeStock ==
    /\ pc = "analyze_stock"
    /\ \E t \in ClockReads([fn |-> "analyze_stock"]) :
          /\ result' = analyze_stock(Ticker, historical_df, earnings_df, t[1], t[2])
          /\ now' = t[2]
    /\ trace' = Append(trace, "analyze_stock")
    /\ pc' = "save_support_resistance"
    /\ UNCHANGED <<historical_df, earnings_df, runs, stock_id, returned>>
    /\ UNCHANGED <<analysisVars, tableVars, batchVars>>

\* the guarded call of save_support_resistance
SaveSupportResistance ==
    /\ pc = "save_support_resistance"
    /\ IF wants_save(result, "support_resistance")
       THEN \E db_ok \in BOOLEAN :
              LET out == save_support_resistance(support_resistance_rows, stock_id,
                                                 result.support_resistance, db_ok)
              IN  /\ support_resistance_rows' = out.rows
                  /\ saved' = IF out.ok
                              THEN [saved EXCEPT !.support_resistance = @ + 1]
                              ELSE saved
                  /\ trace' = Append(trace, "save_support_resistance")
       ELSE UNCHANGED <<support_resistance_rows, saved, trace>>
    /\ pc' = "save_trend_score"
    /\ UNCHANGED <<historical_df, earnings_df, now, result, runs, stock_id, returned>>
    /\ UNCHANGED <<analysisVars, trend_score_rows, batchVars>>

\* the guarded call of save_trend_score, and return True
SaveTrendScore ==
    /\ pc = "save_trend_score"
    /\ IF wants_save(result, "trend_scores")
       THEN \E db_ok \in BOOLEAN :
              LET out == save_trend_score(trend_score_rows, stock_id,
                                          result.trend_scores, db_ok)
              IN  /\ trend_score_rows' = out.rows
                  /\ saved' = IF out.ok
                              THEN [saved EXCEPT !.trend_score = @ + 1]
                              ELSE saved
                  /\ trace' = Append(trace, "save_trend_score")
       ELSE UNCHANGED <<trend_score_rows, saved, trace>>
    /\ pc' = "done"
    /\ returned' = "True"
    /\ UNCHANGED <<historical_df, earnings_df, now, result, runs, stock_id>>
    /\ UNCHANGED <<analysisVars, support_resistance_rows, batchVars>>

NextCollector ==
    \/ StartRun
    \/ SaveStockInfo
    \/ SaveHistoricalPrices
    \/ SaveEarningsData
    \/ AnalyzeStock
    \/ SaveSupportResistance
    \/ SaveTrendScore

SpecCollector == InitCollector /\ [][NextCollector]_vars

----------------------------------------------------------------------------
(* fetch_batch_tickers: the thread pool and the collection of its futures *)

\* tickers of a batch, and the worker threads of the pool (max_workers)
MaxBatch == 3
MaxWorkers == 2

TickerNames == {"AAA", "BBB"}
TickerLists == SeqsUpTo(TickerNames, MaxBatch)

\* what the data provider does during one fetch: everything answered, no price
\* history, no basic information, or an error escaping into fetch_data_for_ticker
Providers == {"full", "no_history", "no_info", "error"}

\* get_stock_info: the dictionary of the ticker, or None
get_stock_info(ticker, provider) ==
    IF provider = "no_info" THEN NoneResult
    ELSE [kind |-> "dict", ticker |-> ticker]

\* get_historical_data: the history with its ticker column, or None
get_historical_data(ticker, provider) ==
    IF provider = "full"
    THEN DataFrame({"Close", "ticker"}, <<[Close |-> 1, ticker |-> ticker]>>)
    ELSE NoneDF

\* get_earnings_data: the earnings of the ticker, or None
get_earnings_data(ticker, provider) ==
    IF provider = "full"
    THEN DataFrame({"surprise_percent", "ticker"},
                   <<[surprise_percent |-> 1, ticker |-> ticker]>>)
    ELSE NoneDF

\* the try block of fetch_data_for_ticker
fetch_data_for_ticker_try(ticker, provider) ==
    IF provider = "error" THEN Raised
    ELSE LET stock_info == get_stock_info(ticker, provider)
         IN  IF ~Truthy(stock_info) THEN NoneResult
             ELSE [kind |-> "dict",
                   info |-> stock_info,
                   historical_data |-> get_historical_data(ticker, provider),
                   earnings_data |-> get_earnings_data(ticker, provider)]

fetch_data_for_ticker(ticker, provider) ==
    except_return(fetch_data_for_ticker_try(ticker, provider), NoneResult)

\* a submitted call of fetch_data_for_ticker
PendingFuture == [state |-> "pending", data |-> NoPrev]

\* mutant of future_done: the result is read without waiting for the worker
future_done_unwaited(future) == TRUE

\* future.result() returns once the worker has finished the call
future_done(future) == future.state = "done"

\* if data: results[ticker] = data
store_result(mapping, ticker, data) ==
    IF Truthy(data)
    THEN [t \in DOMAIN mapping \cup {ticker} |->
             IF t = ticker THEN data ELSE mapping[t]]
    ELSE mapping

Running == {i \in 1..Len(futures) : futures[i].state = "running"}
Queued == {i \in 1..Len(futures) : futures[i].state = "pending"}

InitFetch ==
    /\ tickers \in TickerLists
    /\ futures = << >>
    /\ cursor = 0
    /\ fetched = << >>
    /\ pc = "idle"
    /\ historical_df = NoneDF
    /\ earnings_df = NoneDF
    /\ announcement_dates = << >>
    /\ hist_data = NoFetch
    /\ results = NoPrev
    /\ now = 0
    /\ call = NoCall
    /\ result = NoPrev
    /\ locals = << >>
    /\ prev = NoPrev
    /\ stock_id = 0
    /\ trace = << >>
    /\ returned = "none"
    /\ runs = 0
    /\ support_resistance_rows = << >>
    /\ trend_score_rows = << >>
    /\ saved = [support_resistance |-> 0, trend_score |-> 0]

restVars == <<historical_df, earnings_df, now, call, result, locals, prev,
              announcement_dates, hist_data, results, stock_id,
              returned, runs, support_resistance_rows, trend_score_rows, saved>>

\* results = {}; every ticker of the list is submitted to the pool
Submit ==
    /\ pc = "idle"
    /\ futures' = [i \in 1..Len(tickers) |-> PendingFuture]
    /\ fetched' = << >>
    /\ cursor' = 1
    /\ pc' = "collect"
    /\ UNCHANGED <<tickers, trace, restVars>>

\* a free worker thread takes the oldest queued call
WorkerStart ==
    /\ pc = "collect"
    /\ Queued # {}
    /\ Cardinality(Running) < MaxWorkers
    /\ LET i == CHOOSE k \in Queued : \A m \in Queued : k <= m
       IN  futures' = [futures EXCEPT ![i].state = "running"]
    /\ UNCHANGED <<tickers, cursor, fetched, pc, trace, restVars>>

\* a worker thread finishes its call of fetch_data_for_ticker; trace keeps the
\* order in which the calls finished
WorkerFinish ==
    /\ pc = "collect"
    /\ \E i \in Running, provider \in Providers :
          /\ futures' = [futures EXCEPT
                           ![i] = [state |-> "done",
                                   data |-> fetch_data_for_ticker(tickers[i], provider)]]
          /\ trace' = Append(trace, i)
    /\ UNCHANGED <<tickers, cursor, fetched, pc, restVars>>

\* one pass of the loop over future_to_ticker, in the order of submission
Collect ==
    /\ pc = "collect"
    /\ cursor <= Len(futures)
    /\ future_done(futures[cursor])
    /\ fetched' = store_result(fetched, tickers[cursor], futures[cursor].data)
    /\ cursor' = cursor + 1
    /\ UNCHANGED <<tickers, futures, pc, trace, restVars>>

\* the pool is shut down with every call finished, and results is returned
Return ==
    /\ pc = "collect"
    /\ cursor > Len(futures)
    /\ Running = {}
    /\ Queued = {}
    /\ pc' = "returned"
    /\ UNCHANGED <<tickers, futures, cursor, fetched, trace, restVars>>

NextFetch ==
    \/ Submit
    \/ WorkerStart
    \/ WorkerFinish
    \/ Collect
    \/ Return

SpecFetch == InitFetch /\ [][NextFetch]_vars

----------------------------------------------------------------------------
(* Claims C1 - C10 *)

Called(fn) == call.fn = fn
MovementRan == Called("calculate_post_earnings_movement") /\ DOMAIN hist_data # {}
ReportedRows == IF results.kind = "DataFrame" THEN results.rows ELSE << >>
Reported(a) == \E r \in 1..Len(ReportedRows) : ReportedRows[r].announcement_date = a

\* C1: for every announcement date a the anchor day is the first series date among
\* a, a+1, ..., a+3; when no series date lies in a..a+3 the event is skipped (no
\* per-event record), even when a+4 is a series date.
C1_AnchorWithinThreeDays ==
    MovementRan =>
        \A k \in 1..Len(announcement_dates) :
            LET a == announcement_dates[k]
                near == {j \in 0..AnchorBoundDays : AddDays(a, j) \in IndexOf(hist_data)}
            IN  IF near = {}
                THEN ~locals[k].anchored /\ ~Reported(a)
                ELSE /\ locals[k].anchored
                     /\ Reported(a)
                     /\ locals[k].closest_date = AddDays(a, MinOf(near))

\* the trading days strictly after the anchor of pass e that the forward search for
\* horizon h can count: those up to h + 5 calendar days past the announcement
CountableDays(e, h) ==
    {t \in IndexOf(hist_data) :
        /\ TsLt(e.closest_date, t)
        /\ TsLe(t, AddDays(e.announcement_date, h + ForwardSlackDays))}

\* the h-th smallest timestamp of S
NthOf(S, h) == CHOOSE t \in S : Cardinality({u \in S : TsLt(u, t)}) = h - 1

\* C2: for every anchored event and every horizon h a forward return is reported
\* if and only if h trading days after the anchor were counted within the bound,
\* and it is then (close[h-th trading day] - close[anchor]) / close[anchor] * 100;
\* with fewer than h trading days counted the horizon is absent.
C2_ReturnIffHTradingDays ==
    MovementRan =>
        \A k \in 1..Len(announcement_dates) :
            LET e == locals[k]
            IN  e.anchored =>
                  \A h \in DaySet :
                      LET countable == CountableDays(e, h)
                          reported == h \in DOMAIN e.price_changes
                      IN  /\ reported <=> Cardinality(countable) >= h
                          /\ reported =>
                               e.price_changes[h] =
                                 FMul(FDiv(FSub(CloseAt(hist_data, NthOf(countable, h)),
                                                CloseAt(hist_data, e.closest_date)),
                                           CloseAt(hist_data, e.closest_date)),
                                      Flt(100))

HasBandColumns(df) == ~IsNone(df) /\ {"High", "Low", "Close"} \subseteq df.columns
SeriesLen == Len(historical_df.rows)
LatestClose == Flt(historical_df.rows[SeriesLen]["Close"])
AllDefined(levels) == \A k \in 1..Len(levels) : IsNum(levels[k])

\* C3: with a non-empty series of fewer than `window` points the 52-week high is
\* the maximum of High and the 52-week low the minimum of Low over all available
\* points, and high, low and all levels are defined values.
C3_ShortSeriesUsesAllPoints ==
    (/\ Called("calculate_support_resistance")
     /\ HasBandColumns(historical_df)
     /\ SeriesLen > 0
     /\ SeriesLen < call.window)
    => /\ result.kind = "dict"
       /\ result.fifty_two_week_high =
              Flt(MaxOf({historical_df.rows[i]["High"] : i \in 1..SeriesLen}))
       /\ result.fifty_two_week_low =
              Flt(MinOf({historical_df.rows[i]["Low"] : i \in 1..SeriesLen}))
       /\ AllDefined(result.resistance)
       /\ AllDefined(result.support)

EmptySeries == ~IsNone(historical_df) /\ Empty(historical_df)

\* C4 (as claimed): for an empty price series analyze_stock returns a bundle with
\* the ticker whose three sub-results are None, not None in place of the bundle.
C4_EmptySeriesGivesBundle ==
    (Called("analyze_stock") /\ EmptySeries)
    => /\ result.kind = "dict"
       /\ result.ticker = Ticker
       /\ result.support_resistance = NoneResult
       /\ result.trend_scores = NoneResult
       /\ result.earnings_analysis = NoneResult

\* C4 (amended): for an empty price series analyze_stock returns None in place of
\* the bundle, whatever the earnings argument.
C4_EmptySeriesGivesNone ==
    (Called("analyze_stock") /\ EmptySeries) => result = NoneResult

C4_Witness ==
    /\ Called("analyze_stock")
    /\ EmptySeries
    /\ ~IsNone(earnings_df)
    /\ ~Empty(earnings_df)
    /\ result = NoneResult

\* a result without the dates it carries
Undated(r) ==
    LET Leaf(x) == IF x.kind = "dict" THEN [x EXCEPT !.date = 0] ELSE x
    IN  IF r.kind # "dict" THEN r
        ELSE IF "date" \in DOMAIN r THEN Leaf(r)
        ELSE IF "support_resistance" \in DOMAIN r
        THEN [r EXCEPT !.support_resistance = Leaf(@), !.trend_scores = Leaf(@)]
        ELSE r

CoreFunctions == {"calculate_support_resistance", "calculate_trend_score", "analyze_stock"}
RepeatedCore == prev # NoPrev /\ call.fn \in CoreFunctions

BandsReturned == Called("calculate_support_resistance") /\ result.kind = "dict"

Ascending(levels) == \A k \in 1..(Len(levels) - 1) : FLe(levels[k], levels[k + 1])
Descending(levels) == \A k \in 1..(Len(levels) - 1) : FLe(levels[k + 1], levels[k])

\* C6 (as claimed): for every series with at least one point and num_levels >= 1
\* the resistance levels ascend, the support levels descend, every resistance
\* level lies strictly between the latest Close and the 52-week high and every
\* support level strictly between the 52-week low and the latest Close.
C6_LevelsStrictlyInside ==
    BandsReturned =>
        /\ Ascending(result.resistance)
        /\ Descending(result.support)
        /\ \A k \in 1..Len(result.resistance) :
              /\ FLt(LatestClose, result.resistance[k])
              /\ FLt(result.resistance[k], result.fifty_two_week_high)
        /\ \A k \in 1..Len(result.support) :
              /\ FLt(result.fifty_two_week_low, result.support[k])
              /\ FLt(result.support[k], LatestClose)

\* C6 (amended): for a series with Low <= Close <= High in every row: with at least
\* `window` points the resistance levels ascend and the support levels descend;
\* every resistance level lies strictly between the latest Close and the 52-week
\* high when the latest Close is below that high and equals the latest Close when
\* it is that high; every support level lies strictly between the 52-week low and
\* the latest Close when the latest Close is above that low and equals the latest
\* Close when it is that low.  With fewer than `window` points every level is NaN.
C6_LevelsInsideOrAtPrice ==
    BandsReturned =>
        IF SeriesLen < call.window
        THEN /\ \A k \in 1..Len(result.resistance) : IsNaN(result.resistance[k])
             /\ \A k \in 1..Len(result.support) : IsNaN(result.support[k])
        ELSE /\ Ascending(result.resistance)
             /\ Descending(result.support)
             /\ \A k \in 1..Len(result.resistance) :
                   IF FLt(LatestClose, result.fifty_two_week_high)
                   THEN /\ FLt(LatestClose, result.resistance[k])
                        /\ FLt(result.resistance[k], result.fifty_two_week_high)
                   ELSE result.resistance[k] = LatestClose
             /\ \A k \in 1..Len(result.support) :
                   IF FLt(result.fifty_two_week_low, LatestClose)
                   THEN /\ FLt(result.fifty_two_week_low, result.support[k])
                        /\ FLt(result.support[k], LatestClose)
                   ELSE result.support[k] = LatestClose

C6_Witness ==
    /\ BandsReturned
    /\ SeriesLen >= call.window
    /\ call.num_levels = 3
    /\ LatestClose = result.fifty_two_week_high
    /\ FLt(result.fifty_two_week_low, LatestClose)
    /\ FLt(result.support[3], result.support[1])

\* float equality: false when either side is NaN
FEq(x, y) == ~IsNaN(x) /\ ~IsNaN(y) /\ x = y

\* C7: the result holds exactly num_levels resistance_k and num_levels support_k
\* fields; for i in 1..num_levels they are
\* current_price + (i/(num_levels+1)) * (high_52w - current_price) and
\* current_price - (i/(num_levels+1)) * (current_price - low_52w), so that no
\* level equals high_52w or low_52w unless it equals current_price.
C7_LevelFormula ==
    BandsReturned =>
        LET n == call.num_levels
            high_52w == result.fifty_two_week_high
            low_52w == result.fifty_two_week_low
        IN  /\ Len(result.resistance) = n
            /\ Len(result.support) = n
            /\ \A i \in 1..n :
                  /\ result.resistance[i] =
                         FAdd(LatestClose, FMul(Rat(i, n + 1), FSub(high_52w, LatestClose)))
                  /\ result.support[i] =
                         FSub(LatestClose, FMul(Rat(i, n + 1), FSub(LatestClose, low_52w)))
                  /\ FEq(result.resistance[i], high_52w) => FEq(result.resistance[i], LatestClose)
                  /\ FEq(result.support[i], low_52w) => FEq(result.support[i], LatestClose)

C7_Witness ==
    /\ BandsReturned
    /\ call.num_levels = 3
    /\ FLt(LatestClose, result.fifty_two_week_high)
    /\ FLt(result.fifty_two_week_low, LatestClose)
    /\ FLt(result.resistance[1], result.resistance[3])

RECURSIVE CloseSum(_, _)
\* Close[lo] + ... + Close[hi] of the price series
CloseSum(lo, hi) ==
    IF hi < lo THEN 0 ELSE historical_df.rows[hi]["Close"] + CloseSum(lo, hi - 1)

AveragesReturned ==
    /\ Called("calculate_moving_averages")
    /\ ~IsNone(historical_df)
    /\ HasCol(historical_df, "Close")

\* C8: for every window w and index i, ma_w at i is the arithmetic mean of Close
\* over the w points ending at i when w such points exist and absent (NaN, never
\* a partial average, never zero) otherwise; for a series shorter than w it is
\* absent at every index.
C8_MovingAverageOrAbsent ==
    AveragesReturned =>
        /\ DOMAIN result.ma = call.windows
        /\ \A w \in call.windows :
              /\ Len(result.ma[w]) = SeriesLen
              /\ \A i \in 1..SeriesLen :
                    result.ma[w][i] =
                        IF i >= w THEN Rat(CloseSum(i - w + 1, i), w) ELSE NaN
              /\ SeriesLen < w => \A i \in 1..SeriesLen : IsNaN(result.ma[w][i])

C8_Witness ==
    /\ AveragesReturned
    /\ call.windows = Windows
    /\ SeriesLen = 2
    /\ IsNaN(result.ma[2][1])
    /\ result.ma[2][2] = Rat(3, 2)
    /\ IsNaN(result.ma[3][2])

TrendReturned == Called("calculate_trend_score") /\ result.kind = "dict"

\* the return over N points as the claim states it
ClaimedReturn(N) ==
    IF SeriesLen >= N + 1
    THEN LET past == Flt(historical_df.rows[SeriesLen - N]["Close"])
         IN  FDiv(FSub(LatestClose, past), past)
    ELSE Flt(0)

\* C9: for N in {1, 5, 20, 60} the horizon return is
\* (latest_close - close N points before the last) / (close N points before the
\* last) when the series has at least N + 1 points and exactly 0 otherwise.
C9_HorizonReturns ==
    TrendReturned =>
        /\ locals.returns["1d"] = ClaimedReturn(1)
        /\ locals.returns["1w"] = ClaimedReturn(5)
        /\ locals.returns["1m"] = ClaimedReturn(20)
        /\ locals.returns["3m"] = ClaimedReturn(60)

C9_Witness ==
    /\ TrendReturned
    /\ SeriesLen = 20
    /\ locals.returns["1d"] # Flt(0)
    /\ locals.returns["1w"] # Flt(0)
    /\ locals.returns["1m"] = Flt(0)
    /\ locals.returns["3m"] = Flt(0)

\* C10: price_trend_score = 100 * (0.30*r_1d + 0.30*r_1w + 0.20*r_1m + 0.20*r_3m)
\* for the four horizon returns, and the four weights sum to exactly 1.
C10_PriceTrendScore ==
    /\ FAdd(FAdd(FAdd(weights["1d"], weights["1w"]), weights["1m"]), weights["3m"]) = Flt(1)
    /\ TrendReturned =>
          result.price_trend_score =
              FMul(Flt(100),
                   FAdd(FAdd(FAdd(FMul(Rat(30, 100), locals.returns["1d"]),
                                  FMul(Rat(30, 100), locals.returns["1w"])),
                             FMul(Rat(20, 100), locals.returns["1m"])),
                        FMul(Rat(20, 100), locals.returns["3m"])))

C10_Witness ==
    /\ TrendReturned
    /\ SeriesLen = 61
    /\ \A p \in {"1d", "1w", "1m", "3m"} : locals.returns[p] # Flt(0)
    /\ locals.returns["1d"] # locals.returns["3m"]
    /\ result.price_trend_score # Flt(0)

\* ---------------------------------------------------------------------------
\* C11: whenever calculate_trend_score returns a result, its combined_score is
\* 0.5 * price_trend_score + 0.3 * volume_trend_score + 0.2 * earnings_trend_score
\* of the three sub-scores carried by that same result.
C11_CombinedScore ==
    TrendReturned =>
        result.combined_score =
            FAdd(FAdd(FMul(Rat(1, 2), result.price_trend_score),
                      FMul(Rat(3, 10), result.volume_trend_score)),
                 FMul(Rat(1, 5), result.earnings_trend_score))

C11_Witness ==
    /\ TrendReturned
    /\ IsNum(result.price_trend_score) /\ result.price_trend_score # Flt(0)
    /\ IsNum(result.volume_trend_score) /\ result.volume_trend_score # Flt(0)
    /\ IsNum(result.earnings_trend_score) /\ result.earnings_trend_score # Flt(0)
    /\ result.volume_trend_score # result.earnings_trend_score

\* the Volume column of the series the call was made on, and its two means
VolumeSeries == Col(historical_df, "Volume")
VolumeSum(from, to) == SumInt(SubSeq(VolumeSeries, from, to))
RecentFrom == IF Len(VolumeSeries) > 5 THEN Len(VolumeSeries) - 4 ELSE 1
\* <<sum, count>> of the last (at most) five volumes
RecentVolume == <<VolumeSum(RecentFrom, Len(VolumeSeries)), Len(VolumeSeries) - RecentFrom + 1>>
\* <<sum, count>> of the baseline: positions 6..30 from the end with 31 points
\* or more, the whole series with fewer
BaselineVolume ==
    IF Len(VolumeSeries) >= 31
    THEN <<VolumeSum(Len(VolumeSeries) - 29, Len(VolumeSeries) - 5), 25>>
    ELSE <<VolumeSum(1, Len(VolumeSeries)), Len(VolumeSeries)>>

\* C12: volume_trend_score is 100 * (mean Volume of the last 5 points / baseline - 1),
\* the baseline being the mean Volume of the 25 points at positions 6..30 from the
\* end when the series has 31 points or more and the mean of the whole series when
\* it has fewer (stated where the quotient exists, baseline > 0).
C12_VolumeTrendScore ==
    (TrendReturned /\ BaselineVolume[1] > 0) =>
        result.volume_trend_score =
            Rat(100 * (RecentVolume[1] * BaselineVolume[2] - BaselineVolume[1] * RecentVolume[2]),
                BaselineVolume[1] * RecentVolume[2])

C12_Witness ==
    /\ TrendReturned
    /\ Len(VolumeSeries) = 30
    /\ BaselineVolume[1] > 0
    /\ result.volume_trend_score # Flt(0)
    /\ VolumeSum(1, 25) * 30 # VolumeSum(1, 30) * 25

\* C13: whenever the baseline volume mean is 0 the volume_trend_score is exactly 0,
\* no division fails, and a result (not None) is returned.
C13_ZeroBaseline ==
    (/\ Called("calculate_trend_score")
     /\ ~IsNone(historical_df) /\ ~Empty(historical_df)
     /\ ~trend_score_raises(historical_df)
     /\ BaselineVolume[1] = 0) =>
        /\ result.kind = "dict"
        /\ result.volume_trend_score = Flt(0)

C13_Witness ==
    /\ TrendReturned
    /\ BaselineVolume[1] = 0
    /\ RecentVolume[1] > 0
    /\ result.volume_trend_score = Flt(0)

\* ---------------------------------------------------------------------------
\* the events of the earnings argument, by position
Events == 1..Len(earnings_df.rows)
EventValue(i, c) == earnings_df.rows[i][c]
\* the events of I whose value in column c is present
Resolved(c, I) == {i \in I : ~IsNaN(EventValue(i, c))}
RECURSIVE SumAt(_, _)
SumAt(c, I) ==
    IF I = {} THEN Flt(0)
    ELSE LET i == CHOOSE j \in I : TRUE
         IN  FAdd(EventValue(i, c), SumAt(c, I \ {i}))
\* the arithmetic mean of column c over the events of I that have it
MeanAt(c, I) ==
    IF Resolved(c, I) = {} THEN NaN
    ELSE FDiv(SumAt(c, Resolved(c, I)), Flt(Cardinality(Resolved(c, I))))

SurpriseUsable ==
    ~IsNone(earnings_df) /\ ~Empty(earnings_df) /\ HasCol(earnings_df, "surprise_percent")
\* the three events with the latest announcement dates
LatestThree ==
    {i \in Events :
        Cardinality({j \in Events : FGt(EventValue(j, "announcement_date"),
                                        EventValue(i, "announcement_date"))}) < 3}

\* C14: earnings_trend_score is the mean of surprise_percent over the three events
\* with the latest announcement dates, whatever the order of the events in the
\* input, when the earnings data is non-empty and has a surprise_percent column,
\* and 0 when the earnings data is None, empty or lacks that column.
C14_LatestThreeSurprises ==
    TrendReturned =>
        result.earnings_trend_score =
            IF SurpriseUsable THEN MeanAt("surprise_percent", LatestThree) ELSE Flt(0)

\* ---------------------------------------------------------------------------
PriceActionCalled == Called("analyze_price_action_after_earnings")
PriceActionReturned == PriceActionCalled /\ result.kind = "dict"
EarningsGiven == ~IsNone(earnings_df) /\ ~Empty(earnings_df)
BothHorizonColumns ==
    HasCol(earnings_df, "price_1d_change") /\ HasCol(earnings_df, "price_5d_change")
OverallFields == {"kind", "ticker", "avg_1d_change", "avg_5d_change", "earnings_count"}
SurpriseFields ==
    {"avg_1d_after_positive_surprise", "avg_5d_after_positive_surprise",
     "avg_1d_after_negative_surprise", "avg_5d_after_negative_surprise",
     "surprise_1d_correlation", "surprise_5d_correlation"}

\* C15 (as claimed): analyze_price_action_after_earnings never fails hard and, for
\* non-empty earnings data, returns a result carrying every field the available
\* columns permit: the overall means and the count without surprise_percent, and
\* still a result (not None) when only one forward-return column, or none, is there.
C15_DegradedResult ==
    (PriceActionCalled /\ EarningsGiven) =>
        /\ result.kind = "dict"
        /\ "earnings_count" \in DOMAIN result
        /\ HasCol(earnings_df, "price_1d_change") => "avg_1d_change" \in DOMAIN result
        /\ HasCol(earnings_df, "price_5d_change") => "avg_5d_change" \in DOMAIN result

\* C15 (amended): analyze_price_action_after_earnings never fails hard; it returns
\* None for None or empty earnings data and whenever either forward-return column
\* is missing; with both columns it returns the overall means and the count, plus
\* the six surprise fields exactly when surprise_percent is a column.
C15_NoneWithoutBothHorizons ==
    PriceActionCalled =>
        IF EarningsGiven /\ BothHorizonColumns
        THEN /\ result.kind = "dict"
             /\ result.ticker = Ticker
             /\ result.earnings_count = Len(earnings_df.rows)
             /\ DOMAIN result =
                    IF HasCol(earnings_df, "surprise_percent")
                    THEN OverallFields \cup SurpriseFields
                    ELSE OverallFields
        ELSE result = NoneResult

C15_Witness ==
    /\ PriceActionCalled
    /\ EarningsGiven
    /\ HasCol(earnings_df, "price_1d_change")
    /\ ~HasCol(earnings_df, "price_5d_change")
    /\ \E i \in Events : IsNum(EventValue(i, "price_1d_change"))
    /\ result = NoneResult

\* ---------------------------------------------------------------------------
SurpriseReturned == PriceActionReturned /\ HasCol(earnings_df, "surprise_percent")
HorizonColumns == {"price_1d_change", "price_5d_change"}
CorrelationField(c) ==
    IF c = "price_1d_change" THEN result.surprise_1d_correlation
    ELSE result.surprise_5d_correlation
\* the events that have both a surprise and the forward return of column c
BothEvents(c) == Resolved(c, Resolved("surprise_percent", Events))

RECURSIVE DevProdOver(_, _, _, _, _)
\* the sum over J of (a[i] - ma) * (b[i] - mb)
DevProdOver(a, b, ma, mb, J) ==
    IF J = {} THEN Flt(0)
    ELSE LET i == CHOOSE j \in J : TRUE
         IN  FAdd(FMul(FSub(EventValue(i, a), ma), FSub(EventValue(i, b), mb)),
                  DevProdOver(a, b, ma, mb, J \ {i}))
\* the sum over I of the products of the deviations from the means over I
DevProd(a, b, I) == DevProdOver(a, b, MeanAt(a, I), MeanAt(b, I), I)
\* Pearson's r of surprise_percent and column c over the events that have both,
\* as <<sign of r, r^2>>; NaN when either is constant over them
Pearson(c) ==
    LET sxy == DevProd("surprise_percent", c, BothEvents(c))
        sxx == DevProd("surprise_percent", "surprise_percent", BothEvents(c))
        syy == DevProd(c, c, BothEvents(c))
    IN  IF sxx = Flt(0) \/ syy = Flt(0) THEN NaN
        ELSE <<Sign(sxy), FDiv(FMul(sxy, sxy), FMul(sxx, syy))[1],
                          FDiv(FMul(sxy, sxy), FMul(sxx, syy))[2]>>

\* C16 (as claimed): each surprise correlation is computed over exactly the events
\* that have both values, and is None whenever fewer than 2 events have both
\* values, even if the earnings list has 2 or more rows.
C16_CorrelationNoneUnderTwoPairs ==
    SurpriseReturned =>
        \A c \in HorizonColumns :
            IF Cardinality(BothEvents(c)) < 2
            THEN CorrelationField(c) = None
            ELSE CorrelationField(c) = Pearson(c)

\* C16 (amended): each surprise correlation is None when the earnings list has a
\* single row; with 2 or more rows it is computed over exactly the events that have
\* both values, and is NaN when fewer than 2 events have both values or when
\* either value is constant over them.
C16_CorrelationNoneUnderTwoRows ==
    SurpriseReturned =>
        \A c \in HorizonColumns :
            IF Len(earnings_df.rows) < 2 THEN CorrelationField(c) = None
            ELSE IF Cardinality(BothEvents(c)) < 2 THEN CorrelationField(c) = NaN
            ELSE CorrelationField(c) = Pearson(c)

C16_Witness ==
    /\ SurpriseReturned
    /\ Len(earnings_df.rows) >= 2
    /\ Cardinality(BothEvents("price_5d_change")) = 1
    /\ result.surprise_5d_correlation = NaN
    /\ Cardinality(BothEvents("price_1d_change")) >= 2
    /\ Len(result.surprise_1d_correlation) = 3

\* ---------------------------------------------------------------------------
OverallField(c) ==
    IF c = "price_1d_change" THEN result.avg_1d_change ELSE result.avg_5d_change

\* C17: each per-horizon aggregate mean is the arithmetic mean of that horizon's
\* forward return over exactly the events for which it was resolved (an absent
\* return is excluded, not counted as zero); with a single resolved event it is
\* that event's return.
C17_MeanOverResolved ==
    PriceActionReturned =>
        \A c \in HorizonColumns :
            /\ OverallField(c) = MeanAt(c, Events)
            /\ \A i \in Events :
                   Resolved(c, Events) = {i} => OverallField(c) = EventValue(i, c)

C17_Witness ==
    /\ PriceActionReturned
    /\ Len(earnings_df.rows) >= 2
    /\ Cardinality(Resolved("price_5d_change", Events)) = 1
    /\ IsNum(result.avg_5d_change) /\ result.avg_5d_change # Flt(0)
    /\ Cardinality(Resolved("price_1d_change", Events)) >= 2

PositiveEvents == {i \in Events : FGt(EventValue(i, "surprise_percent"), Flt(0))}
NegativeEvents == {i \in Events : FLt(EventValue(i, "surprise_percent"), Flt(0))}
SplitMean(c, I) == IF I = {} THEN None ELSE MeanAt(c, I)

\* C18: the positive-surprise means are taken over exactly the events with
\* surprise_percent > 0 and the negative-surprise means over exactly those with
\* surprise_percent < 0; an event whose surprise is exactly 0 or missing counts in
\* neither, and a split with no events is reported as None.
C18_SurpriseSplits ==
    SurpriseReturned =>
        /\ result.avg_1d_after_positive_surprise = SplitMean("price_1d_change", PositiveEvents)
        /\ result.avg_5d_after_positive_surprise = SplitMean("price_5d_change", PositiveEvents)
        /\ result.avg_1d_after_negative_surprise = SplitMean("price_1d_change", NegativeEvents)
        /\ result.avg_5d_after_negative_surprise = SplitMean("price_5d_change", NegativeEvents)

C18_Witness ==
    /\ SurpriseReturned
    /\ NegativeEvents = {}
    /\ result.avg_1d_after_negative_surprise = None
    /\ \E i, j \in Events :
           /\ PositiveEvents = {i}
           /\ EventValue(j, "surprise_percent") = Flt(0)
           /\ EventValue(j, "price_1d_change") # EventValue(i, "price_1d_change")
           /\ result.avg_1d_after_positive_surprise = EventValue(i, "price_1d_change")

\* ---------------------------------------------------------------------------
\* the time a returned record was stamped with (any time for None)
DateOf(r) == IF r.kind = "dict" THEN r.date ELSE now

\* C19: for a non-empty price series analyze_stock always returns a bundle with the
\* ticker; support_resistance and trend_scores are exactly what
\* calculate_support_resistance and calculate_trend_score returned (a None is
\* carried through, it does not abort the bundle); earnings_analysis is None when
\* the earnings data is None or empty and otherwise exactly the result of
\* analyze_price_action_after_earnings.
C19_BundleCarriesResults ==
    (Called("analyze_stock") /\ ~IsNone(historical_df) /\ ~Empty(historical_df)) =>
        /\ result.kind = "dict"
        /\ DOMAIN result =
               {"kind", "ticker", "support_resistance", "trend_scores", "earnings_analysis"}
        /\ result.ticker = Ticker
        /\ result.support_resistance =
               calculate_support_resistance(historical_df, Ticker, DefaultWindow,
                   DefaultNumLevels, DateOf(result.support_resistance))
        /\ result.trend_scores =
               calculate_trend_score(historical_df, earnings_df, Ticker,
                   DateOf(result.trend_scores))
        /\ result.earnings_analysis =
               IF EarningsGiven
               THEN analyze_price_action_after_earnings(historical_df, earnings_df, Ticker)
               ELSE NoneResult

C19_Witness ==
    /\ Called("analyze_stock")
    /\ ~IsNone(historical_df) /\ ~Empty(historical_df)
    /\ result.kind = "dict"
    /\ result.support_resistance.kind = "dict"
    /\ result.trend_scores = NoneResult
    /\ result.earnings_analysis = NoneResult

\* ---------------------------------------------------------------------------
AnalysisFunctions ==
    {"calculate_moving_averages", "calculate_support_resistance", "calculate_trend_score",
     "analyze_price_action_after_earnings", "analyze_stock"}

\* C20: no public analysis function (calculate_moving_averages,
\* calculate_support_resistance, calculate_trend_score,
\* analyze_price_action_after_earnings, analyze_stock) and no call of
\* calculate_post_earnings_movement lets an exception escape: for every input,
\* None, empty and column-deficient data included, the call ends by returning a
\* result or an absent value.
C20_NoExceptionEscapes ==
    /\ call.fn \in AnalysisFunctions => result.kind \in {"None", "dict", "DataFrame"}
    /\ Called("calculate_post_earnings_movement") => results.kind \in {"None", "DataFrame"}

C20_Witness ==
    /\ Called("calculate_trend_score")
    /\ ~IsNone(historical_df) /\ ~Empty(historical_df)
    /\ trend_score_try(historical_df, earnings_df, Ticker, now) = Raised
    /\ result = NoneResult

\* ---------------------------------------------------------------------------
BandColumns == {"High", "Low", "Close"}

\* C21: calculate_support_resistance returns None, never a partially filled
\* record, whenever the series is empty or lacks any of the columns High, Low, Close.
C21_NoneWithoutBandData ==
    (/\ Called("calculate_support_resistance")
     /\ ~IsNone(historical_df)
     /\ Empty(historical_df) \/ ~(BandColumns \subseteq historical_df.columns)) =>
        result = NoneResult

C21_Witness ==
    /\ Called("calculate_support_resistance")
    /\ ~IsNone(historical_df) /\ ~Empty(historical_df)
    /\ BandColumns \ historical_df.columns = {"Low"}
    /\ result = NoneResult

\* C22: calculate_trend_score returns None whenever the price series is None or
\* empty, whatever the earnings argument.
C22_NoneWithoutSeries ==
    (Called("calculate_trend_score") /\ (IsNone(historical_df) \/ Empty(historical_df))) =>
        result = NoneResult

C22_Witness ==
    /\ Called("calculate_trend_score")
    /\ ~IsNone(historical_df) /\ Empty(historical_df)
    /\ SurpriseUsable
    /\ IsNum(MeanAt("surprise_percent", Events))
    /\ result = NoneResult

\* ---------------------------------------------------------------------------
\* the passes of the loop over the announcement dates, by position
Passes == 1..Len(locals)
SeriesDates == IndexOf(hist_data)
\* the percentage change from the close of day c to the close of day f
ChangeBetween(c, f) == Rat(100 * (hist_data[f] - hist_data[c]), hist_data[c])

\* C23: every forward return reported by calculate_post_earnings_movement was
\* computed relative to an anchor date that is present in the price series: no
\* per-event record with a price_Nd_change exists for an event whose anchor
\* search ended on a date absent from the series.
C23_AnchorPresent ==
    MovementRan =>
        \A r \in 1..Len(ReportedRows) :
            DOMAIN ReportedRows[r].price_change # {} =>
                \E k \in Passes :
                    /\ locals[k].announcement_date = ReportedRows[r].announcement_date
                    /\ locals[k].closest_date \in SeriesDates
                    /\ \A day \in DOMAIN ReportedRows[r].price_change :
                           \E f \in DOMAIN hist_data :
                               ReportedRows[r].price_change[day] =
                                   ChangeBetween(locals[k].closest_date[1], f)

C23_Witness ==
    /\ MovementRan
    /\ \E k \in Passes : locals[k].closest_date \notin SeriesDates
    /\ \E r \in 1..Len(ReportedRows), k \in Passes :
           /\ locals[k].announcement_date = ReportedRows[r].announcement_date
           /\ locals[k].closest_date \in SeriesDates
           /\ locals[k].closest_date # locals[k].announcement_date
           /\ DOMAIN ReportedRows[r].price_change = DaySet

\* ---------------------------------------------------------------------------
TableReturned == MovementRan /\ results.kind = "DataFrame"
\* the records of the per-event table that carry the horizon's field
RowsWith(day) == {r \in 1..Len(ReportedRows) : day \in DOMAIN ReportedRows[r].price_change}
RECURSIVE SumRows(_, _)
SumRows(day, I) ==
    IF I = {} THEN Flt(0)
    ELSE LET r == CHOOSE j \in I : TRUE
         IN  FAdd(ReportedRows[r].price_change[day], SumRows(day, I \ {r}))
\* what analyze_price_action_after_earnings makes of the per-event table
TableAnalysis == analyze_price_action_after_earnings(NoneDF, table_frame(results), Ticker)
AverageOf(analysis, day) ==
    IF day = 1 THEN analysis.avg_1d_change ELSE analysis.avg_5d_change

\* C24: an anchored event for which one horizon cannot be resolved still appears
\* in the per-event table with that horizon's field absent, is excluded from that
\* horizon's aggregate mean, and still contributes its resolved horizons to their
\* aggregate means in analyze_price_action_after_earnings, also when no event at
\* all resolved that horizon.
C24_UnresolvedHorizonKept ==
    TableReturned =>
        /\ Len(ReportedRows) = Cardinality({k \in Passes : locals[k].anchored})
        /\ \A day \in DaySet :
               RowsWith(day) # {} =>
                   /\ TableAnalysis.kind = "dict"
                   /\ AverageOf(TableAnalysis, day) =
                          FDiv(SumRows(day, RowsWith(day)), Flt(Cardinality(RowsWith(day))))

\* ---------------------------------------------------------------------------
\* the rows of the per-event table that belong to the pass k
RowsOfPass(k) ==
    {r \in 1..Len(ReportedRows) :
        ReportedRows[r].announcement_date = locals[k].announcement_date}
\* the last date the forward search for horizon day may use for the announcement date a
ForwardLimit(a, day) == AddDays(a, day + 5)

\* C25: for every event with announcement date a and every horizon h, the forward
\* search never uses the close of a date later than a + (h + 5) calendar days: the
\* bound is measured from the announcement date, not from the anchor day, and no
\* reported forward return is taken from beyond it.
C25_ForwardBound ==
    MovementRan =>
        \A k \in Passes :
            locals[k].anchored =>
                \A day \in DaySet :
                    /\ TsLe(locals[k].scans[day][1],
                            ForwardLimit(locals[k].announcement_date, day))
                    /\ \A r \in RowsOfPass(k) :
                           day \in DOMAIN ReportedRows[r].price_change =>
                               \E f \in SeriesDates :
                                   /\ TsLe(f, ForwardLimit(locals[k].announcement_date, day))
                                   /\ ReportedRows[r].price_change[day] =
                                          ChangeBetween(locals[k].closest_date[1], f[1])

C25_Witness ==
    /\ MovementRan
    /\ \E k \in Passes, day \in DaySet :
           /\ locals[k].anchored
           /\ locals[k].closest_date # locals[k].announcement_date
           /\ locals[k].scans[day][1] = ForwardLimit(locals[k].announcement_date, day)
           /\ \E r \in RowsOfPass(k) : day \in DOMAIN ReportedRows[r].price_change

\* ---------------------------------------------------------------------------
RemoveAt(seq, p) == [i \in 1..(Len(seq) - 1) |-> IF i < p THEN seq[i] ELSE seq[i + 1]]
\* the pass j failed: its anchor was not found or one of its horizons is unresolved
FailedPass(j) == ~locals[j].anchored \/ DOMAIN locals[j].price_changes # DaySet
\* the per-event table without the record of pass j
TableWithout(j) ==
    IF locals[j].anchored
    THEN RemoveAt(ReportedRows, Cardinality({i \in 1..j : locals[i].anchored}))
    ELSE ReportedRows
\* the per-event records of a run over the same price series without the date j
RowsWithout(j) ==
    LET rerun == calculate_post_earnings_movement(hist_data, RemoveAt(announcement_dates, j))
    IN  IF rerun.kind = "DataFrame" THEN rerun.rows ELSE << >>

RisingSeries ==
    /\ ~IsNone(historical_df)
    /\ PriceCols \subseteq historical_df.columns
    /\ SeriesLen >= 2
    /\ historical_df.rows[1]["Close"] > 0
    /\ \A i \in 1..(SeriesLen - 1) :
           historical_df.rows[i]["Close"] < historical_df.rows[i + 1]["Close"]

\* C27: for every price series with at least 2 points whose Close is strictly
\* increasing and positive, calculate_trend_score returns price_trend_score > 0,
\* and calculate_support_resistance with num_levels = 2 returns
\* resistance_1 < resistance_2.
C27_RisingSeries ==
    /\ (Called("calculate_trend_score") /\ RisingSeries) =>
           /\ result.kind = "dict"
           /\ FGt(result.price_trend_score, Flt(0))
    /\ (Called("calculate_support_resistance") /\ RisingSeries
        /\ call.window = DefaultWindow /\ call.num_levels = 2) =>
           /\ result.kind = "dict"
           /\ FLt(result.resistance[1], result.resistance[2])

\* the stored rows before a step are still the first rows after it, unchanged
KeptRows(before, after) ==
    /\ Len(before) <= Len(after)
    /\ \A i \in 1..Len(before) : after[i] = before[i]

\* a step of the collector adds a row to a table exactly when a save of that
\* table returned True in it, and then exactly one
OneRowPerSave ==
    /\ KeptRows(support_resistance_rows, support_resistance_rows')
    /\ KeptRows(trend_score_rows, trend_score_rows')
    /\ Len(support_resistance_rows') - Len(support_resistance_rows)
         = saved'.support_resistance - saved.support_resistance
    /\ Len(trend_score_rows') - Len(trend_score_rows)
         = saved'.trend_score - saved.trend_score
    /\ saved'.support_resistance - saved.support_resistance \in {0, 1}
    /\ saved'.trend_score - saved.trend_score \in {0, 1}

\* C28: across the runs for a stock every successful save_support_resistance or
\* save_trend_score adds exactly one record and leaves every record stored before
\* as it was, so each table holds as many records as there were successful saves
C28_AppendOnly ==
    /\ [](/\ Len(support_resistance_rows) = saved.support_resistance
          /\ Len(trend_score_rows) = saved.trend_score)
    /\ [][OneRowPerSave]_vars

\* two runs stored two different support/resistance records, and one trend score
\* because the other trend save did not go through
C28_Witness ==
    /\ runs = 2
    /\ pc = "done"
    /\ Len(support_resistance_rows) = 2
    /\ support_resistance_rows[1] # support_resistance_rows[2]
    /\ saved.support_resistance = 2
    /\ Len(trend_score_rows) = 1
    /\ saved.trend_score = 1

\* the operations of process_ticker_data in the order of its statements
SaveOrder ==
    <<"save_stock_info", "save_historical_prices", "save_earnings_data",
      "analyze_stock", "save_support_resistance", "save_trend_score">>
PlaceOf(op) == CHOOSE k \in 1..Len(SaveOrder) : SaveOrder[k] = op
Performed(op) == \E i \in 1..Len(trace) : trace[i] = op

\* C29: the operations a run of process_ticker_data has performed follow the order
\* save_stock_info, save_historical_prices, save_earnings_data, analyze_stock,
\* save_support_resistance, save_trend_score; a run without a stock id has returned
\* False with nothing after save_stock_info; and each of the two analysis saves was
\* invoked only on a bundle of analyze_stock that holds its sub-result
C29_OrderedSaves ==
    /\ \A i \in 1..Len(trace) : trace[i] \in {SaveOrder[k] : k \in 1..Len(SaveOrder)}
    /\ \A i, j \in 1..Len(trace) : i < j => PlaceOf(trace[i]) < PlaceOf(trace[j])
    /\ trace # << >> => trace[1] = "save_stock_info"
    /\ (trace # << >> /\ stock_id = 0) =>
          /\ trace = <<"save_stock_info">>
          /\ pc = "done"
          /\ returned = "False"
    /\ (Performed("save_support_resistance") \/ Performed("save_trend_score")) =>
          /\ Performed("analyze_stock")
          /\ result.kind = "dict"
    /\ Performed("save_support_resistance") => result.support_resistance.kind = "dict"
    /\ Performed("save_trend_score") => result.trend_scores.kind = "dict"

\* a finished run on a history without volumes and no earnings: the levels were
\* saved, the earnings and the absent trend scores were not
C29_Witness ==
    /\ pc = "done"
    /\ returned = "True"
    /\ result.kind = "dict"
    /\ result.trend_scores = NoneResult
    /\ trace = <<"save_stock_info", "save_historical_prices", "analyze_stock",
                 "save_support_resistance">>

\* the calls, among the first n submitted, that returned data
Delivered(n) == {i \in 1..n : Truthy(futures[i].data)}

\* the last of them made for ticker t
LastDelivered(t, n) ==
    CHOOSE i \in Delivered(n) :
        /\ tickers[i] = t
        /\ \A j \in Delivered(n) : tickers[j] = t => j <= i

\* C30: whatever the order in which the workers start and finish, the mapping of
\* fetch_batch_tickers holds exactly the tickers whose fetch_data_for_ticker returned
\* data, each with the data fetched for that very ticker; a fetch that returned None
\* or raised leaves every entry as it was; this holds after every pass of the
\* collecting loop and for the mapping returned, which covers the whole list
C30_ExactMapping ==
    pc \in {"collect", "returned"} =>
        /\ DOMAIN fetched = {tickers[i] : i \in Delivered(cursor - 1)}
        /\ \A t \in DOMAIN fetched :
              /\ fetched[t] = futures[LastDelivered(t, cursor - 1)].data
              /\ fetched[t].info.ticker = t
              /\ ~IsNone(fetched[t].historical_data) =>
                    \A k \in 1..Len(fetched[t].historical_data.rows) :
                        fetched[t].historical_data.rows[k].ticker = t
        /\ pc = "returned" =>
              /\ cursor - 1 = Len(tickers)
              /\ \A i \in 1..Len(futures) : futures[i].state = "done"

\* the mapping returned for three tickers: the second call finished first, the
\* first returned None and the other two returned data
C30_Witness ==
    /\ pc = "returned"
    /\ tickers = <<"AAA", "BBB", "AAA">>
    /\ trace = <<2, 1, 3>>
    /\ futures[1].data = NoneResult
    /\ DOMAIN fetched = {"AAA", "BBB"}
    /\ fetched["AAA"] = futures[3].data
====
